---------------------------- MODULE Spec2Model ----------------------------
(***************************************************************************)
(* Voar: a Flask application with registration, login, a feed and post     *)
(* creation with an optional media upload (src/app.py).                    *)
(*                                                                         *)
(* Each client (browser) has at most one request in flight; requests of    *)
(* different clients interleave at the database statements and at the file *)
(* write, which is where a multi-threaded server can switch between them.  *)
(* Text is modelled as sequences of one-character strings so that          *)
(* rsplit, lower, secure_filename and strftime operate on characters.      *)
(***************************************************************************)
EXTENDS Integers, Sequences, FiniteSets, TLC

\* ------------------------------------------------------------------ bounds
MaxPosts == 2
MaxClock == 1

\* ------------------------------------------------------------ input values
Clients == {"c1", "c2"}
Usernames == {"alice", "bob"}
Emails == {"a@x", "b@x"}
Passwords == {"pw1", "pw2"}
Contents == {"hi"}
Salts == {0, 1}
\* Python's None and SQL's NULL where a text or a row is expected
None == <<>>
\* request.files without the key 'media'
NoFile == <<>>

\* Upload filenames, as character sequences:
\* "" (no file chosen), "a", "a.exe", "a.jpg", "/.JPG"
\* request.files is <<f>> when it holds the file f under 'media'.
Filenames ==
    { <<>>,
      <<"a">>,
      <<"a", ".", "e", "x", "e">>,
      <<"a", ".", "j", "p", "g">>,
      <<"/", ".", "J", "P", "G">> }

VARIABLES
    users,          \* table users, in rowid order
    posts,          \* table posts, in rowid order
    storage,        \* names of the files under UPLOAD_FOLDER
    session,        \* per client: the Flask session (a dict)
    pc,             \* per client: where its request is
    req,            \* per client: the request being handled
    resp,           \* per client: the last response it received
    conn,           \* per client: the handler's local `conn`
    media_filename, \* per client: create_post's local `media_filename`
    clock,          \* wall clock, in seconds
    registered,     \* history: <<username, password>> of each successful registration
    authenticated   \* history, per client: a login succeeded and no logout followed

vars == <<users, posts, storage, session, pc, req, resp, conn, media_filename,
          clock, registered, authenticated>>

\* ------------------------------------------------------------ text helpers
Lower(ch) ==
    CASE ch = "A" -> "a"
      [] ch = "E" -> "e"
      [] ch = "G" -> "g"
      [] ch = "J" -> "j"
      [] ch = "N" -> "n"
      [] ch = "P" -> "p"
      [] ch = "X" -> "x"
      [] OTHER -> ch

LowerStr(s) == [i \in DOMAIN s |-> Lower(s[i])]

HasDot(s) == \E i \in DOMAIN s : s[i] = "."

\* filename.rsplit('.', 1)[1]: the text after the last '.'
RSplitExt(s) ==
    LET last == CHOOSE i \in DOMAIN s :
                    s[i] = "." /\ \A j \in DOMAIN s : s[j] = "." => j <= i
    IN SubSeq(s, last + 1, Len(s))

ALLOWED_EXTENSIONS ==
    { <<"p", "n", "g">>, <<"j", "p", "g">>, <<"j", "p", "e", "g">>,
      <<"g", "i", "f">>, <<"m", "p", "4">>, <<"a", "v", "i">>,
      <<"m", "o", "v">>, <<"w", "e", "b", "m">> }

\* A plausible slip: only the presence of a '.' is checked.
allowed_file_any_ext(filename) == HasDot(filename)

allowed_file(filename) ==
    HasDot(filename) /\ LowerStr(RSplitExt(filename)) \in ALLOWED_EXTENSIONS

\* werkzeug's secure_filename on the characters used here: path separators
\* become spaces, whitespace-separated words are joined by "_", characters
\* outside [A-Za-z0-9_.-] are removed and "." and "_" are stripped at the ends.
SafeChars ==
    { "a", "e", "g", "j", "n", "p", "x", "A", "E", "G", "J", "N", "P", "X",
      "0", "1", "2", "3", "4", "5", "6", "7", "8", "9", "_", ".", "-" }

ReplaceSep(s) == [i \in DOMAIN s |-> IF s[i] = "/" THEN " " ELSE s[i]]

RECURSIVE LStrip(_, _)
LStrip(s, chars) ==
    IF s # <<>> /\ Head(s) \in chars THEN LStrip(Tail(s), chars) ELSE s

RECURSIVE RStrip(_, _)
RStrip(s, chars) ==
    IF s # <<>> /\ s[Len(s)] \in chars
    THEN RStrip(SubSeq(s, 1, Len(s) - 1), chars)
    ELSE s

Strip(s, chars) == RStrip(LStrip(s, chars), chars)

\* "_".join(s.split())
RECURSIVE JoinWords(_)
JoinWords(s) ==
    LET t == Strip(s, {" "})
    IN IF t = <<>> THEN <<>>
       ELSE IF Head(t) = " " THEN JoinWords(Tail(t))
       ELSE IF Len(t) > 1 /\ t[2] = " "
            THEN <<Head(t), "_">> \o JoinWords(Tail(t))
            ELSE <<Head(t)>> \o JoinWords(Tail(t))

IsSafeChar(ch) == ch \in SafeChars

secure_filename(s) ==
    Strip(SelectSeq(JoinWords(ReplaceSep(s)), IsSafeChar), {".", "_"})

Digit(d) ==
    CASE d = 0 -> "0" [] d = 1 -> "1" [] d = 2 -> "2" [] d = 3 -> "3"
      [] d = 4 -> "4" [] d = 5 -> "5" [] d = 6 -> "6" [] d = 7 -> "7"
      [] d = 8 -> "8" [] d = 9 -> "9"

\* datetime.now().strftime('%Y%m%d_%H%M%S'); the clock counts the seconds
\* of one minute of one day.
StrfTime(t) ==
    <<"2", "0", "2", "6", "0", "1", "0", "1", "_", "0", "0", "0", "0",
      Digit((t \div 10) % 10), Digit(t % 10)>>

StoredName(t, filename) == StrfTime(t) \o <<"_">> \o secure_filename(filename)

\* ------------------------------------------------------- password hashing
PwCode(p) == CASE p = "pw1" -> 0 [] p = "pw2" -> 1

\* The salted one-way digest: injective in (salt, password) on the inputs used.
Digest(salt, password) == salt * Cardinality(Passwords) + PwCode(password)

generate_password_hash(password, salt) ==
    [salt |-> salt, digest |-> Digest(salt, password)]

\* A plausible slip: the salt stored with the hash is ignored on verification.
check_password_hash_nosalt(pwhash, password) ==
    pwhash.digest = Digest(0, password)

check_password_hash(pwhash, password) ==
    pwhash.digest = Digest(pwhash.salt, password)

\* ------------------------------------------------------------- the tables
Rows(table) == {table[i] : i \in DOMAIN table}

\* A plausible slip: the lookup tests the username only.
UserExists_username_only(username, email) ==
    \E u \in Rows(users) : u.username = username

\* SELECT id FROM users WHERE username = ? OR email = ?  -> fetchone() truthy
UserExists(username, email) ==
    \E u \in Rows(users) : u.username = username \/ u.email = email

\* A schema without the UNIQUE columns.
UniqueViolation_none(username, email) == FALSE

\* username TEXT UNIQUE, email TEXT UNIQUE: the INSERT raises IntegrityError
UniqueViolation(username, email) ==
    \E u \in Rows(users) : u.username = username \/ u.email = email

\* INSERT INTO users: id INTEGER PRIMARY KEY AUTOINCREMENT, nothing is deleted
InsertUser(us, username, email, pwhash) ==
    Append(us, [id |-> Len(us) + 1, username |-> username, email |-> email,
                password_hash |-> pwhash])

\* A plausible slip: the first row is taken whatever the username.
LookupUser_first_row(username) ==
    IF users = <<>> THEN None ELSE <<users[1]>>

\* SELECT id, password_hash FROM users WHERE username = ?  -> fetchone():
\* None, or <<row>>
LookupUser(username) ==
    IF \E u \in Rows(users) : u.username = username
    THEN <<CHOOSE u \in Rows(users) : u.username = username>>
    ELSE None

\* A plausible slip: INSERT OR REPLACE on a fixed key overwrites the last row.
InsertPost_replace(ps, user_id, content, media, now) ==
    LET row == [id |-> Len(ps), user_id |-> user_id, content |-> content,
                media_filename |-> media, created_at |-> now]
    IN IF ps = <<>> THEN <<[row EXCEPT !.id = 1]>>
       ELSE [ps EXCEPT ![Len(ps)] = row]

\* INSERT INTO posts: created_at DEFAULT CURRENT_TIMESTAMP
InsertPost(ps, user_id, content, media, now) ==
    Append(ps, [id |-> Len(ps) + 1, user_id |-> user_id, content |-> content,
                media_filename |-> media, created_at |-> now])

\* posts p JOIN users u ON p.user_id = u.id, with the selected columns
JoinRows ==
    { [id |-> p.id, content |-> p.content, media_filename |-> p.media_filename,
       created_at |-> p.created_at, username |-> u.username] :
      <<p, u>> \in { pu \in Rows(posts) \X Rows(users) : pu[1].user_id = pu[2].id } }

Orderings(rows) ==
    { s \in [1..Cardinality(rows) -> rows] : \A r \in rows : \E i \in DOMAIN s : s[i] = r }

\* A plausible slip: ORDER BY p.created_at (ascending).
OrderByCreatedAtDesc_asc(rows) ==
    { s \in Orderings(rows) :
        \A i, j \in DOMAIN s : i < j => s[i].created_at <= s[j].created_at }

\* ORDER BY p.created_at DESC; rows of equal created_at come in any order
OrderByCreatedAtDesc(rows) ==
    { s \in Orderings(rows) :
        \A i, j \in DOMAIN s : i < j => s[i].created_at >= s[j].created_at }

\* A plausible slip: the file name is computed but the file is not written.
SaveFile_skipped(files, name) == files

\* file.save(os.path.join(UPLOAD_FOLDER, filename)); an existing file is overwritten
SaveFile(files, name) == files \cup {name}

\* ------------------------------------------------------------- responses
NoFlash == ""
Redirect(to, flash) == [kind |-> "redirect", target |-> to, flash |-> flash, posts |-> <<>>]
Render(template, flash) == [kind |-> "render", target |-> template, flash |-> flash, posts |-> <<>>]
RenderFeed(feed) == [kind |-> "render", target |-> "index.html", flash |-> NoFlash, posts |-> feed]
ServerError == [kind |-> "error", target |-> "500", flash |-> NoFlash, posts |-> <<>>]
NoResp == [kind |-> "none", target |-> "", flash |-> NoFlash, posts |-> <<>>]

\* ---------------------------------------------------------------- session
EmptySession == [k \in {} |-> 0]
LoggedIn(c) == "user_id" \in DOMAIN session[c]

\* A plausible slip: session.pop('username') in place of session.clear().
session_clear_username_only(s) == [k \in DOMAIN s \ {"username"} |-> s[k]]

\* session.clear()
session_clear(s) == EmptySession

\* ---------------------------------------------------------------- requests
NoReq == [route |-> "none", method |-> "GET"]

RegisterPosts ==
    [route : {"register"}, method : {"POST"}, username : Usernames,
     email : Emails, password : Passwords]
LoginPosts ==
    [route : {"login"}, method : {"POST"}, username : Usernames, password : Passwords]
CreatePosts ==
    [route : {"create_post"}, method : {"POST"}, content : Contents,
     files : {<<f>> : f \in Filenames} \cup {NoFile}]
Gets ==
    [route : {"index", "register", "login", "logout", "create_post"}, method : {"GET"}]

Requests == RegisterPosts \cup LoginPosts \cup CreatePosts \cup Gets


\* ------------------------------------------------------------------- Init
\* The state after init_db() on an empty database and an empty upload folder.
Init ==
    /\ users = <<>>
    /\ posts = <<>>
    /\ storage = {}
    /\ session = [c \in Clients |-> EmptySession]
    /\ pc = [c \in Clients |-> "idle"]
    /\ req = [c \in Clients |-> NoReq]
    /\ resp = [c \in Clients |-> NoResp]
    /\ conn = [c \in Clients |-> "none"]
    /\ media_filename = [c \in Clients |-> None]
    /\ clock = 0
    /\ registered = {}
    /\ authenticated = [c \in Clients |-> FALSE]

IsCreatePost(r) == r.route = "create_post" /\ r.method = "POST"

PostsInFlight ==
    Cardinality({c \in Clients :
        pc[c] \in {"create_post", "create_post_insert"} /\ IsCreatePost(req[c])})

\* A client sends one of the requests R and Flask dispatches it to the
\* route's handler.
ReceiveFrom(c, R) ==
    /\ pc[c] = "idle"
    /\ \E r \in R :
        /\ IsCreatePost(r) => Len(posts) + PostsInFlight < MaxPosts
        /\ req' = [req EXCEPT ![c] = r]
        /\ pc' = [pc EXCEPT ![c] = r.route]
    /\ resp' = [resp EXCEPT ![c] = NoResp]
    /\ conn' = [conn EXCEPT ![c] = "none"]
    /\ media_filename' = [media_filename EXCEPT ![c] = None]
    /\ UNCHANGED <<users, posts, storage, session, clock, registered, authenticated>>

Receive(c) == ReceiveFrom(c, Requests)

\* GET /
index(c) ==
    /\ pc[c] = "index"
    /\ IF ~LoggedIn(c)
       THEN /\ resp' = [resp EXCEPT ![c] = Redirect("login", NoFlash)]
            /\ UNCHANGED conn
       ELSE /\ conn' = [conn EXCEPT ![c] = "closed"]
            /\ \E feed \in OrderByCreatedAtDesc(JoinRows) :
                    resp' = [resp EXCEPT ![c] = RenderFeed(feed)]
    /\ pc' = [pc EXCEPT ![c] = "idle"]
    /\ UNCHANGED <<users, posts, storage, session, req, media_filename, clock, registered, authenticated>>

\* GET|POST /register, up to the existence lookup
register(c) ==
    /\ pc[c] = "register"
    /\ IF req[c].method = "POST"
       THEN IF UserExists(req[c].username, req[c].email)
            THEN /\ conn' = [conn EXCEPT ![c] = "closed"]
                 /\ resp' = [resp EXCEPT ![c] =
                        Render("register.html", "Username or email already exists!")]
                 /\ pc' = [pc EXCEPT ![c] = "idle"]
            ELSE /\ conn' = [conn EXCEPT ![c] = "open"]
                 /\ pc' = [pc EXCEPT ![c] = "register_insert"]
                 /\ UNCHANGED resp
       ELSE /\ resp' = [resp EXCEPT ![c] = Render("register.html", NoFlash)]
            /\ pc' = [pc EXCEPT ![c] = "idle"]
            /\ UNCHANGED conn
    /\ UNCHANGED <<users, posts, storage, session, req, media_filename, clock, registered, authenticated>>

\* POST /register, from generate_password_hash to the redirect.  When the
\* INSERT raises sqlite3.IntegrityError the exception leaves the handler:
\* commit() and close() are not reached and Flask answers 500.
register_insert(c) ==
    /\ pc[c] = "register_insert"
    /\ IF UniqueViolation(req[c].username, req[c].email)
       THEN /\ resp' = [resp EXCEPT ![c] = ServerError]
            /\ UNCHANGED <<users, conn, registered>>
       ELSE /\ \E salt \in Salts :
                users' = InsertUser(users, req[c].username, req[c].email,
                                    generate_password_hash(req[c].password, salt))
            /\ conn' = [conn EXCEPT ![c] = "closed"]
            /\ registered' = registered \cup {<<req[c].username, req[c].password>>}
            /\ resp' = [resp EXCEPT ![c] =
                    Redirect("login", "Registration successful! Please login.")]
    /\ pc' = [pc EXCEPT ![c] = "idle"]
    /\ UNCHANGED <<posts, storage, session, req, media_filename, clock, authenticated>>

\* session[key] = value
SetItem(s, key, value) ==
    [k \in DOMAIN s \cup {key} |-> IF k = key THEN value ELSE s[k]]

\* GET|POST /login
login(c) ==
    /\ pc[c] = "login"
    /\ IF req[c].method = "POST"
       THEN LET user == LookupUser(req[c].username)
            IN /\ conn' = [conn EXCEPT ![c] = "closed"]
               /\ IF user # None /\ check_password_hash(user[1].password_hash, req[c].password)
                  THEN /\ session' = [session EXCEPT ![c] =
                              SetItem(SetItem(@, "user_id", user[1].id),
                                      "username", req[c].username)]
                       /\ authenticated' = [authenticated EXCEPT ![c] = TRUE]
                       /\ resp' = [resp EXCEPT ![c] = Redirect("index", "Login successful!")]
                  ELSE /\ resp' = [resp EXCEPT ![c] =
                              Render("login.html", "Invalid username or password!")]
                       /\ UNCHANGED <<session, authenticated>>
       ELSE /\ resp' = [resp EXCEPT ![c] = Render("login.html", NoFlash)]
            /\ UNCHANGED <<conn, session, authenticated>>
    /\ pc' = [pc EXCEPT ![c] = "idle"]
    /\ UNCHANGED <<users, posts, storage, req, media_filename, clock, registered>>

\* GET /logout
logout(c) ==
    /\ pc[c] = "logout"
    /\ session' = [session EXCEPT ![c] = session_clear(@)]
    /\ authenticated' = [authenticated EXCEPT ![c] = FALSE]
    /\ resp' = [resp EXCEPT ![c] = Redirect("login", "You have been logged out.")]
    /\ pc' = [pc EXCEPT ![c] = "idle"]
    /\ UNCHANGED <<users, posts, storage, req, conn, media_filename, clock, registered>>

\* GET|POST /create_post, up to the end of the upload handling
create_post(c) ==
    /\ pc[c] = "create_post"
    /\ IF ~LoggedIn(c)
       THEN /\ resp' = [resp EXCEPT ![c] = Redirect("login", NoFlash)]
            /\ pc' = [pc EXCEPT ![c] = "idle"]
            /\ UNCHANGED <<storage, media_filename>>
       ELSE IF req[c].method = "POST"
       THEN /\ IF /\ req[c].files # NoFile
                  /\ req[c].files[1] # <<>>
                  /\ allowed_file(req[c].files[1])
               THEN LET filename == StoredName(clock, req[c].files[1])
                    IN /\ storage' = SaveFile(storage, filename)
                       /\ media_filename' = [media_filename EXCEPT ![c] = filename]
               ELSE UNCHANGED <<storage, media_filename>>
            /\ pc' = [pc EXCEPT ![c] = "create_post_insert"]
            /\ UNCHANGED resp
       ELSE /\ resp' = [resp EXCEPT ![c] = Render("create_post.html", NoFlash)]
            /\ pc' = [pc EXCEPT ![c] = "idle"]
            /\ UNCHANGED <<storage, media_filename>>
    /\ UNCHANGED <<users, posts, session, req, conn, clock, registered, authenticated>>

\* POST /create_post, from sqlite3.connect to the redirect
create_post_insert(c) ==
    /\ pc[c] = "create_post_insert"
    /\ posts' = InsertPost(posts, session[c]["user_id"], req[c].content,
                           media_filename[c], clock)
    /\ conn' = [conn EXCEPT ![c] = "closed"]
    /\ resp' = [resp EXCEPT ![c] = Redirect("index", "Post created successfully!")]
    /\ pc' = [pc EXCEPT ![c] = "idle"]
    /\ UNCHANGED <<users, storage, session, req, media_filename, clock, registered, authenticated>>

\* A second passes on the wall clock.
Tick ==
    /\ clock < MaxClock
    /\ clock' = clock + 1
    /\ UNCHANGED <<users, posts, storage, session, pc, req, resp, conn,
                   media_filename, registered, authenticated>>

Next ==
    \/ \E c \in Clients : Receive(c)
    \/ \E c \in Clients : index(c)
    \/ \E c \in Clients : register(c)
    \/ \E c \in Clients : register_insert(c)
    \/ \E c \in Clients : login(c)
    \/ \E c \in Clients : logout(c)
    \/ \E c \in Clients : create_post(c)
    \/ \E c \in Clients : create_post_insert(c)
    \/ Tick

Spec == Init /\ [][Next]_vars

\* ------------------------------------------- the specifications checked
\* Spec with the requests restricted to one part of the application each.
\* The first client sends every request of that part, the second one the
\* requests that race with them.
First == "c1"
Second == "c2"

\* Registration, login and logout with every username, email and password.
AuthRequests ==
    RegisterPosts \cup LoginPosts
      \cup [route : {"index", "register", "login", "logout"}, method : {"GET"}]

NextAuth ==
    \/ ReceiveFrom(First, AuthRequests)
    \/ ReceiveFrom(Second, RegisterPosts)
    \/ \E c \in Clients : index(c)
    \/ \E c \in Clients : register(c)
    \/ \E c \in Clients : register_insert(c)
    \/ \E c \in Clients : login(c)
    \/ \E c \in Clients : logout(c)

SpecAuth == Init /\ [][NextAuth]_vars

\* Two accounts, posts without uploads, and the feed.
Accounts ==
    { [username |-> "alice", email |-> "a@x", password |-> "pw1"],
      [username |-> "bob", email |-> "b@x", password |-> "pw2"] }

AccountLogins ==
    { r \in LoginPosts :
        \E a \in Accounts : a.username = r.username /\ a.password = r.password }

TextPosts == { r \in CreatePosts : r.files = NoFile }

FeedRequests ==
    { r \in RegisterPosts :
        [username |-> r.username, email |-> r.email, password |-> r.password] \in Accounts }
      \cup AccountLogins \cup TextPosts
      \cup [route : {"index", "logout"}, method : {"GET"}]

NextFeed ==
    \/ ReceiveFrom(First, FeedRequests)
    \/ ReceiveFrom(Second, AccountLogins \cup TextPosts)
    \/ \E c \in Clients : index(c)
    \/ \E c \in Clients : register(c)
    \/ \E c \in Clients : register_insert(c)
    \/ \E c \in Clients : login(c)
    \/ \E c \in Clients : logout(c)
    \/ \E c \in Clients : create_post(c)
    \/ \E c \in Clients : create_post_insert(c)
    \/ Tick

SpecFeed == Init /\ [][NextFeed]_vars

\* One account, and posts with every upload.
AliceLogin == { r \in LoginPosts : r.username = "alice" /\ r.password = "pw1" }

MediaRequests ==
    { r \in RegisterPosts : r.username = "alice" /\ r.email = "a@x" /\ r.password = "pw1" }
      \cup AliceLogin \cup CreatePosts
      \cup [route : {"index", "logout", "create_post"}, method : {"GET"}]

NextMedia ==
    \/ ReceiveFrom(First, MediaRequests)
    \/ ReceiveFrom(Second, AliceLogin \cup CreatePosts)
    \/ \E c \in Clients : index(c)
    \/ \E c \in Clients : register(c)
    \/ \E c \in Clients : register_insert(c)
    \/ \E c \in Clients : login(c)
    \/ \E c \in Clients : logout(c)
    \/ \E c \in Clients : create_post(c)
    \/ \E c \in Clients : create_post_insert(c)
    \/ Tick

SpecMedia == Init /\ [][NextMedia]_vars

\* ------------------------------------------------------------ properties
IsPrefix(s, t) == Len(s) <= Len(t) /\ \A i \in DOMAIN s : s[i] = t[i]

DuplicateFlash == "Username or email already exists!"

\* C1: a POST to /register whose username or email is that of a user row
\* already present is answered with the register form and the 'already exists'
\* flash (no redirect), and the users table is left as it was.
DuplicateRegisterRejected ==
    [][\A c \in Clients :
        ( /\ pc[c] = "register"
          /\ pc'[c] # "register"
          /\ req[c].method = "POST"
          /\ \E u \in Rows(users) :
                u.username = req[c].username \/ u.email = req[c].email )
        => /\ pc'[c] = "idle"
           /\ resp'[c] = Render("register.html", DuplicateFlash)
           /\ users' = users]_vars

\* C1 witness: a registration was rejected for its email alone.
DuplicateEmailRejected ==
    \E c \in Clients :
        /\ pc[c] = "idle"
        /\ req[c].route = "register"
        /\ req[c].method = "POST"
        /\ resp[c] = Render("register.html", DuplicateFlash)
        /\ \E u \in Rows(users) : u.email = req[c].email
        /\ \A u \in Rows(users) : u.username # req[c].username

\* C2: no two user rows share a username and no two share an email, in every
\* reachable state, also when two registrations both pass the lookup before
\* either inserts.
UniqueUsers ==
    \A i, j \in DOMAIN users :
        i # j => /\ users[i].username # users[j].username
                 /\ users[i].email # users[j].email

\* C2 witness: of two registrations with one username that both passed the
\* lookup, one has inserted its row and the other's INSERT was refused.
RegisterRaceLost ==
    \E c \in Clients :
        /\ pc[c] = "idle"
        /\ req[c].route = "register"
        /\ resp[c] = ServerError
        /\ \E u \in Rows(users) :
              u.username = req[c].username /\ u.email # req[c].email

\* C3: while the session is Anonymous, a request to / or to /create_post is
\* answered with the redirect to /login and leaves posts and Media Storage
\* unchanged.
AnonymousRedirected ==
    [][\A c \in Clients :
        ( /\ pc[c] \in {"index", "create_post"}
          /\ pc'[c] # pc[c]
          /\ ~authenticated[c] )
        => /\ pc'[c] = "idle"
           /\ resp'[c] = Redirect("login", NoFlash)
           /\ posts' = posts
           /\ storage' = storage]_vars

\* C3 witness: after a registration, an upload of a.jpg to /create_post
\* without a login was redirected.
AnonymousUploadRedirected ==
    \E c \in Clients :
        /\ pc[c] = "idle"
        /\ ~authenticated[c]
        /\ users # <<>>
        /\ IsCreatePost(req[c])
        /\ req[c].files = << <<"a", ".", "j", "p", "g">> >>
        /\ resp[c] = Redirect("login", NoFlash)

\* C4: the feed given to an authenticated request to / holds every post row
\* exactly once, each with the username of the user whose id is the post's
\* user_id, in an order of non-increasing created_at.
FeedListsEveryPost ==
    [][\A c \in Clients :
        (pc[c] = "index" /\ pc'[c] # "index" /\ authenticated[c])
        => LET feed == resp'[c].posts
           IN /\ resp'[c].kind = "render"
              /\ resp'[c].target = "index.html"
              /\ Len(feed) = Len(posts)
              /\ \A i \in DOMAIN posts :
                    /\ Cardinality({k \in DOMAIN feed : feed[k].id = posts[i].id}) = 1
                    /\ \A k \in DOMAIN feed :
                          feed[k].id = posts[i].id =>
                            /\ feed[k].content = posts[i].content
                            /\ \E u \in Rows(users) :
                                  /\ u.id = posts[i].user_id
                                  /\ u.username = feed[k].username
              /\ \A k \in 1..(Len(feed) - 1) :
                    feed[k].created_at >= feed[k + 1].created_at]_vars

\* C4 witness: a feed of two posts by two authors, the later post first.
FeedOfTwoAuthors ==
    \E c \in Clients :
        /\ pc[c] = "idle"
        /\ req[c].route = "index"
        /\ Len(resp[c].posts) = 2
        /\ resp[c].posts[1].created_at > resp[c].posts[2].created_at
        /\ resp[c].posts[1].username # resp[c].posts[2].username
        /\ resp[c].posts[1].id = 2

\* The upload carries a filename without '.', or with text after the last '.'
\* that, in lower case, is not an allowed extension.
Disallowed(f) == ~HasDot(f) \/ LowerStr(RSplitExt(f)) \notin ALLOWED_EXTENSIONS

HasDisallowedUpload(r) ==
    IsCreatePost(r) /\ r.files # NoFile /\ Disallowed(r.files[1])

\* C5: an authenticated POST to /create_post with such an upload writes
\* nothing to Media Storage, inserts the post with media_filename null and
\* ends with the redirect to /.
DisallowedUploadDropped ==
    [][\A c \in Clients :
        ( /\ pc[c] \in {"create_post", "create_post_insert"}
          /\ pc'[c] # pc[c]
          /\ authenticated[c]
          /\ HasDisallowedUpload(req[c]) )
        => /\ storage' = storage
           /\ pc[c] = "create_post" =>
                /\ pc'[c] = "create_post_insert"
                /\ media_filename'[c] = None
           /\ pc[c] = "create_post_insert" =>
                /\ pc'[c] = "idle"
                /\ Len(posts') = Len(posts) + 1
                /\ posts'[Len(posts')].media_filename = None
                /\ posts'[Len(posts')].content = req[c].content
                /\ resp'[c] = Redirect("index", "Post created successfully!")]_vars

\* C5 witness: the post of an upload of a.exe was created without media.
ExeUploadPosted ==
    \E c \in Clients :
        /\ pc[c] = "idle"
        /\ IsCreatePost(req[c])
        /\ req[c].files = << <<"a", ".", "e", "x", "e">> >>
        /\ resp[c] = Redirect("index", "Post created successfully!")
        /\ posts # <<>>
        /\ \A p \in Rows(posts) : p.media_filename = None
        /\ storage = {}

\* C6: every post row with a media_filename names a file present in Media
\* Storage, and a create_post request that is about to insert a row with a
\* media_filename has already written that file.
MediaStoredBeforeInsert ==
    /\ \A p \in Rows(posts) :
            p.media_filename # None => p.media_filename \in storage
    /\ \A c \in Clients :
            (pc[c] = "create_post_insert" /\ media_filename[c] # None)
                => media_filename[c] \in storage

\* C6 witness: a post with media is in the table while another request has
\* written a different file and not inserted its row yet.
MediaPostsInterleave ==
    \E c \in Clients, p \in Rows(posts) :
        /\ pc[c] = "create_post_insert"
        /\ media_filename[c] # None
        /\ p.media_filename # None
        /\ p.media_filename # media_filename[c]

IsRegisteredLogin(c) ==
    /\ pc[c] = "login"
    /\ req[c].method = "POST"
    /\ <<req[c].username, req[c].password>> \in registered

\* C7 as stated: a login with registered credentials succeeds once per
\* session, moving the session from Anonymous to Authenticated.
LoginOncePerSession ==
    [][\A c \in Clients :
        (IsRegisteredLogin(c) /\ pc'[c] # "login")
        => /\ resp'[c] = Redirect("index", "Login successful!")
           /\ ~authenticated[c]
           /\ authenticated'[c]]_vars

\* C7 as amended: every login with registered credentials succeeds, whether
\* the session is Anonymous or Authenticated before: the session is then
\* Authenticated as that user and the response is the redirect to /.
RegisteredLoginSucceeds ==
    [][\A c \in Clients :
        (IsRegisteredLogin(c) /\ pc'[c] # "login")
        => /\ pc'[c] = "idle"
           /\ resp'[c] = Redirect("index", "Login successful!")
           /\ authenticated'[c]
           /\ DOMAIN session'[c] = {"user_id", "username"}
           /\ session'[c]["username"] = req[c].username
           /\ \E u \in Rows(users) :
                 u.username = req[c].username /\ u.id = session'[c]["user_id"]]_vars

\* C7 witness: a login as the second registered user succeeded against a
\* hash with a non-zero salt.
SecondLoginSucceeded ==
    \E c \in Clients :
        /\ pc[c] = "idle"
        /\ req[c].route = "login"
        /\ req[c].method = "POST"
        /\ resp[c] = Redirect("index", "Login successful!")
        /\ session[c]["user_id"] = 2
        /\ users[2].password_hash.salt = 1
        /\ users[2].username = req[c].username

\* The submitted username matches no row, or the submitted password gives
\* another digest than the one stored with the matching row.
BadCredentials(r) ==
    \A u \in Rows(users) :
        u.username = r.username =>
            u.password_hash.digest # Digest(u.password_hash.salt, r.password)

\* C8: a login with a username of no row or a password that does not verify
\* fails with 'Invalid username or password!' and leaves the session as it
\* was; a login that succeeds binds the session to the id of the row with the
\* submitted username, and to that username.
LoginBindsSession ==
    [][\A c \in Clients :
        (pc[c] = "login" /\ req[c].method = "POST" /\ pc'[c] # "login")
        => /\ BadCredentials(req[c]) =>
                /\ resp'[c] = Render("login.html", "Invalid username or password!")
                /\ session'[c] = session[c]
           /\ resp'[c].kind = "redirect" =>
                /\ resp'[c].target = "index"
                /\ session'[c]["username"] = req[c].username
                /\ \E u \in Rows(users) :
                      u.username = req[c].username /\ u.id = session'[c]["user_id"]]_vars

\* C8 witness: an Authenticated session survived a failed login as another
\* registered user with the wrong password.
FailedLoginKeptSession ==
    \E c \in Clients :
        /\ pc[c] = "idle"
        /\ req[c].route = "login"
        /\ req[c].method = "POST"
        /\ resp[c] = Render("login.html", "Invalid username or password!")
        /\ \E u \in Rows(users) : u.username = req[c].username
        /\ LoggedIn(c)
        /\ session[c]["username"] # req[c].username

\* C9: no request ends with the connection it opened still open.
ConnectionsClosed ==
    \A c \in Clients : pc[c] = "idle" => conn[c] # "open"

\* C10: every post row's user_id is the id of a user row, a new post row
\* carries the user_id of the session, and rows of users and posts are never
\* changed or removed.
PostsReferenceUsers ==
    [][ /\ \A p \in Rows(posts') : \E u \in Rows(users') : u.id = p.user_id
        /\ IsPrefix(users, users')
        /\ IsPrefix(posts, posts')
        /\ \A c \in Clients :
              (pc[c] = "create_post_insert" /\ pc'[c] # pc[c])
                => /\ Len(posts') = Len(posts) + 1
                   /\ posts'[Len(posts')].user_id = session[c]["user_id"] ]_vars

\* C10 witness: two posts by two users are in the table and a session that
\* posted has logged out.
PostsOfTwoUsersAfterLogout ==
    /\ Len(posts) = 2
    /\ posts[1].user_id # posts[2].user_id
    /\ \E c \in Clients :
          /\ ~LoggedIn(c)
          /\ req[c].route = "logout"
          /\ pc[c] = "idle"

====
